---- MODULE Spec2Model ----
(***************************************************************************)
(* Model of the survey-intake API of src/server.js (the Postgres version,  *)
(* lines 266-691): the surveys table, the POST /api/saveSurvey upsert with *)
(* its check-then-write sequence, and the read endpoints.                  *)
(*                                                                         *)
(* JavaScript values are records [t, s, n]: t is the type tag, s the       *)
(* characters of a string (a sequence of one-character strings), n the     *)
(* value of a number in units of 1/Scale.  SQL values use the same         *)
(* representation, NULL being the value Null.                              *)
(*                                                                         *)
(* Specifications: Spec (concurrent submissions), SpecRevised (the same on *)
(* a table that holds a revised record), SpecFail (concurrent submissions  *)
(* to a storage engine that can fail), SpecRead (sequential submissions    *)
(* with status and fetch), SpecFields (sequential submissions of single    *)
(* fields) and SpecAdmin (sequential submissions with list and export).    *)
(***************************************************************************)
EXTENDS Integers, Sequences, FiniteSets

\* ---------------------------------------------------------------- bounds
\* number of request slots that can be in flight at the same time
NumSlots == 2
\* total number of saveSurvey requests started in one behaviour
MaxRequests == 5

\* ---------------------------------------------------------------- values
Digits == <<"0", "1", "2", "3", "4", "5", "6", "7", "8", "9">>
\* numbers are fixed-point with one decimal digit: a unit is 1/Scale
Scale == Len(Digits)

Undefined == [t |-> "undefined", s |-> <<>>, n |-> 0]
Null == [t |-> "null", s |-> <<>>, n |-> 0]
NaN == [t |-> "nan", s |-> <<>>, n |-> 0]
Str(chars) == [t |-> "string", s |-> chars, n |-> 0]
\* the number k/Scale
Num(k) == [t |-> "number", s |-> <<>>, n |-> k]
\* the integer i
IntV(i) == Num(i * Scale)

WhiteSpace == {" ", "\t"}
DigitSet == {Digits[i] : i \in 1..10}
DigitVal(c) == (CHOOSE i \in 1..10 : Digits[i] = c) - 1

\* String.prototype.trim
RECURSIVE TrimLeft(_)
TrimLeft(s) ==
  IF s # <<>> /\ Head(s) \in WhiteSpace THEN TrimLeft(Tail(s)) ELSE s

RECURSIVE TrimRight(_)
TrimRight(s) ==
  IF s # <<>> /\ s[Len(s)] \in WhiteSpace
  THEN TrimRight(SubSeq(s, 1, Len(s) - 1))
  ELSE s

Trim(s) == TrimRight(TrimLeft(s))

\* decimal digits of a natural number
RECURSIVE NatToChars(_)
NatToChars(k) ==
  IF k < 10 THEN <<Digits[k + 1]>>
  ELSE NatToChars(k \div 10) \o <<Digits[(k % 10) + 1]>>

Abs(k) == IF k < 0 THEN -k ELSE k

\* Number.prototype.toString for the number k/Scale
NumToChars(k) ==
  (IF k < 0 THEN <<"-">> ELSE <<>>)
    \o NatToChars(Abs(k) \div Scale)
    \o (IF Abs(k) % Scale = 0 THEN <<>>
        ELSE <<".">> \o NatToChars(Abs(k) % Scale))

\* String(v)
JsString(v) ==
  CASE v.t = "string" -> v.s
    [] v.t = "number" -> NumToChars(v.n)
    [] v.t = "nan" -> <<"N", "a", "N">>
    [] v.t = "null" -> <<"n", "u", "l", "l">>
    [] OTHER -> <<"u", "n", "d", "e", "f", "i", "n", "e", "d">>

\* value of a string of digits
RECURSIVE DigitsToNat(_)
DigitsToNat(s) ==
  IF s = <<>> THEN 0
  ELSE DigitsToNat(SubSeq(s, 1, Len(s) - 1)) * 10 + DigitVal(s[Len(s)])

AllDigits(s) == \A i \in 1..Len(s) : s[i] \in DigitSet

\* position of the decimal point, 0 when there is none
PointAt(s) ==
  IF \E i \in 1..Len(s) : s[i] = "."
  THEN CHOOSE i \in 1..Len(s) : s[i] = "." /\ \A j \in 1..(i - 1) : s[j] # "."
  ELSE 0

\* an unsigned decimal literal with at most one fractional digit
UnsignedToNum(s) ==
  LET p == PointAt(s)
      ip == IF p = 0 THEN s ELSE SubSeq(s, 1, p - 1)
      fp == IF p = 0 THEN <<>> ELSE SubSeq(s, p + 1, Len(s))
  IN IF /\ AllDigits(ip) /\ AllDigits(fp)
        /\ Len(ip) + Len(fp) > 0
        /\ Len(fp) <= 1
     THEN Num(DigitsToNat(ip) * Scale + DigitsToNat(fp))
     ELSE NaN

\* Number(v) applied to a string: the StringToNumber conversion, for
\* decimal literals (blank is 0, anything that is not a literal is NaN)
StringToNumber(s) ==
  LET u == Trim(s)
  IN IF u = <<>> THEN Num(0)
     ELSE IF Head(u) = "-"
          THEN LET m == UnsignedToNum(Tail(u))
               IN IF m.t = "nan" THEN NaN ELSE Num(-m.n)
          ELSE IF Head(u) = "+" THEN UnsignedToNum(Tail(u))
          ELSE UnsignedToNum(u)

\* Number(v)
ToNumber(v) ==
  CASE v.t = "number" -> v
    [] v.t = "string" -> StringToNumber(v.s)
    [] v.t = "null" -> Num(0)
    [] OTHER -> NaN

\* Number.isFinite
IsFinite(v) == v.t = "number"

\* Math.round: nearest integer, halves towards +Infinity
MathRound(k) == ((k + (Scale \div 2)) \div Scale) * Scale

\* an integer conversion without the test for absent values
toIntOrNullCoercing(v) ==
  LET n == ToNumber(v)
  IN IF IsFinite(n) THEN Num(MathRound(n.n)) ELSE Null

toIntOrNull(v) ==
  IF v = Undefined \/ v = Null \/ v = Str(<<>>) THEN Null
  ELSE LET n == ToNumber(v)
       IN IF IsFinite(n) THEN Num(MathRound(n.n)) ELSE Null

toFloatOrNull(v) ==
  IF v = Undefined \/ v = Null \/ v = Str(<<>>) THEN Null
  ELSE LET n == ToNumber(v)
       IN IF IsFinite(n) THEN n ELSE Null

\* a text conversion that does not trim
toTextOrNullUntrimmed(v) ==
  IF v = Undefined \/ v = Null THEN Null
  ELSE LET s == JsString(v)
       IN IF Len(s) > 0 THEN Str(s) ELSE Null

toTextOrNull(v) ==
  IF v = Undefined \/ v = Null THEN Null
  ELSE LET s == Trim(JsString(v))
       IN IF Len(s) > 0 THEN Str(s) ELSE Null

\* ---------------------------------------------------------------- schema
\* the metric columns of the surveys table with the body key each is read
\* from and the conversion applied to it (the data object of saveSurvey)
Columns == <<
  [col |-> "store_name", key |-> "storeName", conv |-> "text"],
  [col |-> "business_type", key |-> "businessType", conv |-> "text"],
  [col |-> "store_area", key |-> "storeArea", conv |-> "int"],
  [col |-> "business_circle", key |-> "businessCircle", conv |-> "text"],
  [col |-> "decoration_level", key |-> "decorationLevel", conv |-> "text"],
  [col |-> "monthly_revenue", key |-> "monthlyRevenue", conv |-> "int"],
  [col |-> "daily_customers", key |-> "dailyCustomers", conv |-> "int"],
  [col |-> "seats", key |-> "seats", conv |-> "int"],
  [col |-> "food_cost", key |-> "foodCost", conv |-> "int"],
  [col |-> "labor_cost", key |-> "laborCost", conv |-> "int"],
  [col |-> "rent_cost", key |-> "rentCost", conv |-> "int"],
  [col |-> "online_revenue", key |-> "onlineRevenue", conv |-> "int"],
  [col |-> "main_platforms", key |-> "mainPlatforms", conv |-> "text"],
  [col |-> "marketing_situation", key |-> "marketingSituation", conv |-> "text"],
  [col |-> "total_customers", key |-> "totalCustomers", conv |-> "int"],
  [col |-> "repeat_customers", key |-> "repeatCustomers", conv |-> "int"],
  [col |-> "utility_cost", key |-> "utilityCost", conv |-> "int"],
  [col |-> "marketing_cost", key |-> "marketingCost", conv |-> "int"],
  [col |-> "average_rating", key |-> "averageRating", conv |-> "float"],
  [col |-> "total_reviews", key |-> "totalReviews", conv |-> "int"],
  [col |-> "bad_reviews", key |-> "badReviews", conv |-> "int"],
  [col |-> "service_bad_reviews", key |-> "serviceBadReviews", conv |-> "int"],
  [col |-> "taste_bad_reviews", key |-> "tasteBadReviews", conv |-> "int"],
  [col |-> "short_video_count", key |-> "shortVideoCount", conv |-> "int"],
  [col |-> "live_stream_count", key |-> "liveStreamCount", conv |-> "int"] >>

ColNames == {Columns[i].col : i \in 1..Len(Columns)}
KeyNames == {Columns[i].key : i \in 1..Len(Columns)}
\* the entry of Columns for a column
ColumnOf ==
  [c \in ColNames |-> Columns[CHOOSE i \in 1..Len(Columns) : Columns[i].col = c]]

Convert(conv, v) ==
  CASE conv = "text" -> toTextOrNull(v)
    [] conv = "int" -> toIntOrNull(v)
    [] OTHER -> toFloatOrNull(v)

\* b.key: a key the object does not have reads as undefined
Get(b, key) == IF key \in DOMAIN b THEN b[key] ELSE Undefined

\* the metric part of the data object: one converted value per column
MetricDataOf(b) ==
  [c \in ColNames |-> Convert(ColumnOf[c].conv, Get(b, ColumnOf[c].key))]

\* req.get('user-agent') || null
UserAgentOf(m) == IF m.ua = Undefined \/ m.ua = Str(<<>>) THEN Null ELSE m.ua
\* req.ip || 'unknown'
IpOf(m) ==
  IF m.ip = Undefined \/ m.ip = Str(<<>>)
  THEN Str(<<"u", "n", "k", "n", "o", "w", "n">>)
  ELSE m.ip

\* ---------------------------------------------------------------- inputs
\* a form without a field
NoFields == << >>

\* a request body: the keys of the form f and the storeIdentifier, which
\* is left out when undefined
Form(ident, f) ==
  [k \in DOMAIN f \cup (IF ident = Undefined THEN {} ELSE {"storeIdentifier"})
     |-> IF k = "storeIdentifier" THEN ident ELSE f[k]]

S1 == Str(<<"S", "1">>)
S2 == Str(<<"S", "2">>)
PaddedS1 == Str(<<" ", "S", "1", "\t">>)

\* a fully reported form, a form that reports zeroes and blanks, and one
\* that omits the metrics
FullForm ==
  [storeName |-> Str(<<"A">>), monthlyRevenue |-> IntV(50000),
   averageRating |-> Num(45), seats |-> Str(<<"1", "2">>)]
ZeroForm ==
  [storeName |-> Str(<<" ">>), monthlyRevenue |-> IntV(0),
   averageRating |-> Str(<<>>), seats |-> Num(25)]
OmittedForm == [averageRating |-> Null]

BrowserMeta == [ua |-> Str(<<"U">>), ip |-> Str(<<"1">>)]
BareMeta == [ua |-> Undefined, ip |-> Undefined]

\* storeIdentifier values that name no store
BlankIdentifiers == {Undefined, Null, Str(<<>>), Str(<<" ", "\t">>)}

\* the saveSurvey requests clients send concurrently
Submissions ==
  { [body |-> Form(S1, FullForm), meta |-> BrowserMeta],
    [body |-> Form(S1, OmittedForm), meta |-> BareMeta],
    [body |-> Form(S2, FullForm), meta |-> BrowserMeta] }
  \cup { [body |-> Form(id, OmittedForm), meta |-> BareMeta] :
           id \in BlankIdentifiers }

\* the saveSurvey requests of a client that sends one after the other
SequentialSubmissions ==
  Submissions \cup
    { [body |-> Form(PaddedS1, ZeroForm), meta |-> BrowserMeta],
      [body |-> Form(S2, ZeroForm), meta |-> BareMeta] }

\* one key of each conversion, and the values a client reports under it
FieldKeys == {"storeName", "seats", "averageRating"}
FieldValues ==
  { Null, Str(<<>>), Str(<<" ">>), Str(<<"0">>), Str(<<"A">>),
    IntV(0), IntV(7), Num(25) }

\* the saveSurvey requests of a client that reports one field, or none
FieldSubmissions ==
  { [body |-> Form(S1, [k \in {key} |-> v]), meta |-> BareMeta] :
      key \in FieldKeys, v \in FieldValues }
  \cup { [body |-> Form(S1, NoFields), meta |-> BareMeta] }

\* the request bodies of the model, and the data object of each, computed
\* once
Bodies == {q.body : q \in SequentialSubmissions \cup FieldSubmissions}
MetricTable == [b \in Bodies |-> MetricDataOf(b)]
MetricData(b) == MetricTable[b]

\* the identifiers a record can be stored under
Identifiers ==
  {toTextOrNull(Get(q.body, "storeIdentifier")) : q \in SequentialSubmissions}
    \ {Null}

\* ---------------------------------------------------------------- state
Slots == 1..NumSlots

VARIABLES
  surveys,      \* the surveys table: a set of rows
  nextId,       \* the SERIAL sequence behind surveys.id
  clock,        \* the storage engine's NOW(), in rows written so far
  pc,           \* per slot: where its saveSurvey handler stands
  body,         \* per slot: req.body of the request being handled
  meta,         \* per slot: its user-agent header and req.ip
  checkResult,  \* per slot: checkResult.rows of the existence check
  overlapped,   \* history, per slot: another request for the same
                \* identifier was in flight during this one
  late,         \* history, per slot: a request for the identifier had been
                \* answered 403 before this one arrived
  response,     \* the last response saveSurvey sent, and the slot it is from
  started,      \* number of saveSurvey requests received so far
  stats,        \* history, per identifier: the successful creates, the
                \* successful updates, whether one of them set a populated
                \* metric column to NULL, whether two requests for the
                \* identifier were ever in flight together, the body of the
                \* last successful request, and whether a request for the
                \* identifier was ever answered 403
  reply,        \* the response of the last read request
  ADMIN_KEY     \* the admin key the server was started with, or Null

vars == << surveys, nextId, clock, pc, body, meta, checkResult, overlapped,
           late, response, started, stats, reply, ADMIN_KEY >>

\* the update limit of saveSurvey
MaxUpdates == 3

\* req.body || {}
NoBody == << >>
NoResponse == [slot |-> 0, status |-> 0, id |-> 0, timestamp |-> 0,
               error |-> ""]
Ok(s, row) == [slot |-> s, status |-> 200, id |-> row.id,
               timestamp |-> row.timestamp, error |-> ""]
Failure(s, code, msg) == [slot |-> s, status |-> code, id |-> 0,
                          timestamp |-> 0, error |-> msg]

\* a response without a record in it
NoRecord == << >>
NoReply == [op |-> "none", ident |-> Null, status |-> 0, exists |-> FALSE,
            update_count |-> 0, record |-> NoRecord]

NoStats == [created |-> 0, updated |-> 0, nulled |-> FALSE, raced |-> FALSE,
            submitted |-> NoBody, limited |-> FALSE]

\* const storeIdentifier = toTextOrNull(b.storeIdentifier), for each body
IdentifierOf ==
  [b \in Bodies \cup {NoBody} |-> toTextOrNull(Get(b, "storeIdentifier"))]

\* the storeIdentifier of the request that slot s handles
StoreIdentifier(s) == IdentifierOf[body[s]]

InFlight(s) == pc[s] \in {"check", "insert", "update"}

\* ---------------------------------------------------------------- storage
\* a statement without its WHERE clause: every row matches
SelectWithoutWhere(tbl, ident) == tbl

\* SELECT ... FROM surveys WHERE store_identifier = $1
SelectByIdentifier(tbl, ident) == {r \in tbl : r.store_identifier = ident}

\* a table without the UNIQUE constraint
UniqueViolationOff(tbl, ident) == FALSE

\* store_identifier TEXT UNIQUE NOT NULL: the insert is refused (SQLSTATE
\* 23505) when a row with the identifier is already there
UniqueViolation(tbl, ident) == \E r \in tbl : r.store_identifier = ident

\* an insert that leaves update_count out of step with the creation
InsertedRowCounted(id, now, ident, b, m) ==
  [ id |-> id, timestamp |-> now, store_identifier |-> ident,
    update_count |-> 1, data |-> MetricData(b),
    user_agent |-> UserAgentOf(m), ip |-> IpOf(m) ]

\* the row of INSERT INTO surveys (...) VALUES (...): update_count is the
\* parameter 0, id and timestamp take their defaults
InsertedRow(id, now, ident, b, m) ==
  [ id |-> id, timestamp |-> now, store_identifier |-> ident,
    update_count |-> 0, data |-> MetricData(b),
    user_agent |-> UserAgentOf(m), ip |-> IpOf(m) ]

\* an update that writes the count it read
UpdatedRowSameCount(r, now, currentCount, b, m) ==
  [ r EXCEPT !.data = MetricData(b),
             !.update_count = currentCount,
             !.timestamp = now,
             !.user_agent = UserAgentOf(m),
             !.ip = IpOf(m) ]

\* an update that keeps the stored value of a column the submission omits
UpdatedRowMerged(r, now, currentCount, b, m) ==
  [ r EXCEPT !.data = [c \in ColNames |->
                         IF MetricData(b)[c] = Null THEN r.data[c]
                         ELSE MetricData(b)[c]],
             !.update_count = currentCount + 1,
             !.timestamp = now,
             !.user_agent = UserAgentOf(m),
             !.ip = IpOf(m) ]

\* an update without timestamp=NOW()
UpdatedRowSameTime(r, now, currentCount, b, m) ==
  [ r EXCEPT !.data = MetricData(b),
             !.update_count = currentCount + 1,
             !.user_agent = UserAgentOf(m),
             !.ip = IpOf(m) ]

\* an update carried out as a delete and a fresh insert: the record comes
\* back under a new id
UpdatedRowReinserted(r, now, currentCount, b, m) ==
  [ r EXCEPT !.id = r.id + 1,
             !.data = MetricData(b),
             !.update_count = currentCount + 1,
             !.timestamp = now,
             !.user_agent = UserAgentOf(m),
             !.ip = IpOf(m) ]

\* the row after UPDATE surveys SET ... WHERE store_identifier=$29
UpdatedRow(r, now, currentCount, b, m) ==
  [ r EXCEPT !.data = MetricData(b),
             !.update_count = currentCount + 1,
             !.timestamp = now,
             !.user_agent = UserAgentOf(m),
             !.ip = IpOf(m) ]

\* a limit test that is off by one
LimitReachedLate(currentCount) == currentCount > MaxUpdates

\* if (currentCount >= 3)
LimitReached(currentCount) == currentCount >= MaxUpdates

\* a catch block that does not look at err.code
ErrorResponseOpaque(s, code) == Failure(s, 500, "Database error")

\* a catch block that takes every error for a conflict
ErrorResponseConflict(s, code) ==
  Failure(s, 409, "Store identifier already exists")

\* the catch block of saveSurvey: err.code === '23505' is a conflict
ErrorResponse(s, code) ==
  IF code = "23505"
  THEN Failure(s, 409, "Store identifier already exists")
  ELSE Failure(s, 500, "Database error")

\* rows[0]
FirstRow(rows) == CHOOSE r \in rows : \A q \in rows : r.id <= q.id

Bump(ident, field, b) ==
  stats' = [stats EXCEPT ![ident][field] = @ + 1, ![ident].submitted = b]

\* some metric column is populated in row r and NULL in row q
Nulls(r, q) == \E c \in ColNames : r.data[c] # Null /\ q.data[c] = Null

BumpUpdated(ident, old, new, b) ==
  stats' = [stats EXCEPT ![ident].updated = @ + 1,
                         ![ident].nulled = @ \/ Nulls(old, new),
                         ![ident].submitted = b]

\* the handler has answered: its locals are gone, the slot is free
Respond(s, r) ==
  /\ response' = r
  /\ pc' = [pc EXCEPT ![s] = "idle"]
  /\ body' = [body EXCEPT ![s] = NoBody]
  /\ meta' = [meta EXCEPT ![s] = BareMeta]
  /\ checkResult' = [checkResult EXCEPT ![s] = {}]
  /\ overlapped' = [overlapped EXCEPT ![s] = FALSE]
  /\ late' = [late EXCEPT ![s] = FALSE]

\* ---------------------------------------------------------------- Init
\* the empty table and no request in flight
InitStore ==
  /\ surveys = {}
  /\ nextId = 1
  /\ clock = 1
  /\ pc = [s \in Slots |-> "idle"]
  /\ body = [s \in Slots |-> NoBody]
  /\ meta = [s \in Slots |-> BareMeta]
  /\ checkResult = [s \in Slots |-> {}]
  /\ overlapped = [s \in Slots |-> FALSE]
  /\ late = [s \in Slots |-> FALSE]
  /\ response = NoResponse
  /\ started = 0
  /\ stats = [x \in Identifiers |-> NoStats]
  /\ reply = NoReply

\* process.env.ADMIN_KEY || null
AdminKey(env) == IF env = Undefined \/ env = Str(<<>>) THEN Null ELSE env

\* a server started without ADMIN_KEY in its environment
Init ==
  /\ InitStore
  /\ ADMIN_KEY = AdminKey(Undefined)

\* ---------------------------------------------------------------- saveSurvey
\* the request arrives on the first free slot: the identifier is validated
\* and the existence check is sent
SubmitStart(s, b, m) ==
  /\ pc[s] = "idle"
  /\ \A t \in Slots : t < s => pc[t] # "idle"
  /\ started < MaxRequests
  /\ started' = started + 1
  /\ LET ident == IdentifierOf[b]
         others == {t \in Slots \ {s} :
                      InFlight(t) /\ StoreIdentifier(t) = ident}
     IN IF ident = Null
        THEN /\ Respond(s, Failure(s, 400, "Store identifier is required"))
             /\ UNCHANGED stats
        ELSE /\ pc' = [pc EXCEPT ![s] = "check"]
             /\ body' = [body EXCEPT ![s] = b]
             /\ meta' = [meta EXCEPT ![s] = m]
             /\ overlapped' = [t \in Slots |->
                                 IF t = s THEN others # {}
                                 ELSE overlapped[t] \/ t \in others]
             /\ late' = [late EXCEPT ![s] = stats[ident].limited]
             /\ stats' = [stats EXCEPT ![ident].raced = @ \/ others # {}]
             /\ UNCHANGED << checkResult, response >>
  /\ UNCHANGED << surveys, nextId, clock, reply, ADMIN_KEY >>

\* a handler that records the request's user agent, address and time on the
\* record before it tests the limit
SubmitCheckTouching(s) ==
  /\ pc[s] = "check"
  /\ LET ident == StoreIdentifier(s)
         hit == SelectByIdentifier(surveys, ident)
         rows == {[id |-> r.id, update_count |-> r.update_count] : r \in hit}
     IN /\ surveys' = (surveys \ hit) \cup
                        {[r EXCEPT !.timestamp = clock,
                                   !.user_agent = UserAgentOf(meta[s]),
                                   !.ip = IpOf(meta[s])] : r \in hit}
        /\ IF rows = {}
           THEN /\ pc' = [pc EXCEPT ![s] = "insert"]
                /\ checkResult' = [checkResult EXCEPT ![s] = rows]
                /\ UNCHANGED << body, meta, overlapped, late, response,
                                stats >>
           ELSE IF LimitReached(FirstRow(rows).update_count)
           THEN /\ Respond(s, Failure(s, 403,
                     "Update limit reached. Maximum 3 updates allowed."))
                /\ stats' = [stats EXCEPT ![ident].limited = TRUE]
           ELSE /\ pc' = [pc EXCEPT ![s] = "update"]
                /\ checkResult' = [checkResult EXCEPT ![s] = rows]
                /\ UNCHANGED << body, meta, overlapped, late, response,
                                stats >>
  /\ UNCHANGED << nextId, clock, started, reply, ADMIN_KEY >>

\* a handler that drops a record once its update limit is reached
SubmitCheckExpiring(s) ==
  /\ pc[s] = "check"
  /\ LET ident == StoreIdentifier(s)
         hit == SelectByIdentifier(surveys, ident)
         rows == {[id |-> r.id, update_count |-> r.update_count] : r \in hit}
     IN IF rows = {}
        THEN /\ pc' = [pc EXCEPT ![s] = "insert"]
             /\ checkResult' = [checkResult EXCEPT ![s] = rows]
             /\ UNCHANGED << surveys, body, meta, overlapped, late,
                             response, stats >>
        ELSE IF LimitReached(FirstRow(rows).update_count)
        THEN /\ Respond(s, Failure(s, 403,
                  "Update limit reached. Maximum 3 updates allowed."))
             /\ surveys' = surveys \ hit
             /\ stats' = [stats EXCEPT ![ident].limited = TRUE]
        ELSE /\ pc' = [pc EXCEPT ![s] = "update"]
             /\ checkResult' = [checkResult EXCEPT ![s] = rows]
             /\ UNCHANGED << surveys, body, meta, overlapped, late,
                             response, stats >>
  /\ UNCHANGED << nextId, clock, started, reply, ADMIN_KEY >>

\* the existence check returns and the handler takes the insert branch,
\* the update branch, or answers that the limit is reached
SubmitCheck(s) ==
  /\ pc[s] = "check"
  /\ LET ident == StoreIdentifier(s)
         rows == {[id |-> r.id, update_count |-> r.update_count] :
                    r \in SelectByIdentifier(surveys, ident)}
     IN IF rows = {}
        THEN /\ pc' = [pc EXCEPT ![s] = "insert"]
             /\ checkResult' = [checkResult EXCEPT ![s] = rows]
             /\ UNCHANGED << body, meta, overlapped, late, response, stats >>
        ELSE IF LimitReached(FirstRow(rows).update_count)
        THEN /\ Respond(s, Failure(s, 403,
                  "Update limit reached. Maximum 3 updates allowed."))
             /\ stats' = [stats EXCEPT ![ident].limited = TRUE]
        ELSE /\ pc' = [pc EXCEPT ![s] = "update"]
             /\ checkResult' = [checkResult EXCEPT ![s] = rows]
             /\ UNCHANGED << body, meta, overlapped, late, response, stats >>
  /\ UNCHANGED << surveys, nextId, clock, started, reply, ADMIN_KEY >>

\* the INSERT is executed and answered
SubmitInsert(s) ==
  /\ pc[s] = "insert"
  /\ nextId' = nextId + 1
  /\ LET ident == StoreIdentifier(s)
         row == InsertedRow(nextId, clock, ident, body[s], meta[s])
     IN IF UniqueViolation(surveys, ident)
        THEN /\ Respond(s, ErrorResponse(s, "23505"))
             /\ UNCHANGED << surveys, clock, stats >>
        ELSE /\ surveys' = surveys \cup {row}
             /\ clock' = clock + 1
             /\ Respond(s, Ok(s, row))
             /\ Bump(ident, "created", body[s])
  /\ UNCHANGED << started, reply, ADMIN_KEY >>

\* the UPDATE is executed and answered
SubmitUpdate(s) ==
  /\ pc[s] = "update"
  /\ LET ident == StoreIdentifier(s)
         currentCount == FirstRow(checkResult[s]).update_count
         hit == SelectByIdentifier(surveys, ident)
         new(r) == UpdatedRow(r, clock, currentCount, body[s], meta[s])
     IN /\ surveys' = (surveys \ hit) \cup {new(r) : r \in hit}
        /\ IF hit = {}
           THEN /\ Respond(s, ErrorResponse(s, "TypeError"))
                /\ UNCHANGED << clock, stats >>
           ELSE /\ Respond(s, Ok(s, new(FirstRow(hit))))
                /\ clock' = clock + 1
                /\ BumpUpdated(ident, FirstRow(hit), new(FirstRow(hit)),
                               body[s])
  /\ UNCHANGED << nextId, started, reply, ADMIN_KEY >>

\* the err.code of a statement that the storage engine fails to run: the
\* connection is refused, or a value is out of range for its column
FailureCodes == {"ECONNREFUSED", "22003"}

\* a failing update that has written the metric columns before it fails
SubmitFailDirty(s, code) ==
  /\ InFlight(s)
  /\ surveys' =
       IF pc[s] = "update"
       THEN {IF r.store_identifier = StoreIdentifier(s)
             THEN [r EXCEPT !.data = MetricData(body[s])] ELSE r :
               r \in surveys}
       ELSE surveys
  /\ Respond(s, ErrorResponse(s, code))
  /\ UNCHANGED << nextId, clock, started, stats, reply, ADMIN_KEY >>

\* the statement the handler awaits (the existence check, the INSERT or
\* the UPDATE) is rejected without taking effect: the catch block answers
SubmitFail(s, code) ==
  /\ InFlight(s)
  /\ Respond(s, ErrorResponse(s, code))
  /\ UNCHANGED << surveys, nextId, clock, started, stats, reply, ADMIN_KEY >>

\* ---------------------------------------------------------------- status
\* a status endpoint that answers a miss with an error
StatusReplyNotFound(tbl, identifier) ==
  IF identifier = Str(<<>>)
  THEN [op |-> "status", ident |-> identifier, status |-> 400,
        exists |-> FALSE, update_count |-> 0, record |-> NoRecord]
  ELSE LET rows == SelectByIdentifier(tbl, identifier)
       IN IF rows = {}
          THEN [op |-> "status", ident |-> identifier, status |-> 404,
                exists |-> FALSE, update_count |-> 0, record |-> NoRecord]
          ELSE [op |-> "status", ident |-> identifier, status |-> 200,
                exists |-> TRUE,
                update_count |-> FirstRow(rows).update_count,
                record |-> NoRecord]

\* the answer of GET /api/survey/status/:identifier
StatusReply(tbl, identifier) ==
  IF identifier = Str(<<>>)
  THEN [op |-> "status", ident |-> identifier, status |-> 400,
        exists |-> FALSE, update_count |-> 0, record |-> NoRecord]
  ELSE LET rows == SelectByIdentifier(tbl, identifier)
       IN IF rows = {}
          THEN [op |-> "status", ident |-> identifier, status |-> 200,
                exists |-> FALSE, update_count |-> 0, record |-> NoRecord]
          ELSE [op |-> "status", ident |-> identifier, status |-> 200,
                exists |-> TRUE,
                update_count |-> FirstRow(rows).update_count,
                record |-> NoRecord]

\* the identifiers of read requests
PathIdentifiers == {S1, S2, PaddedS1, Str(<<>>)}

Status(identifier) ==
  /\ reply' = StatusReply(surveys, identifier)
  /\ UNCHANGED << surveys, nextId, clock, pc, body, meta, checkResult,
                  overlapped, late, response, started, stats, ADMIN_KEY >>

\* ---------------------------------------------------------------- fetch
\* the column behind each key of the fetch response
ColumnOfKey ==
  [k \in KeyNames |->
     Columns[CHOOSE i \in 1..Len(Columns) : Columns[i].key = k].col]

\* the body of the fetch response: storeIdentifier and the metric columns
\* under their camelCase keys
FetchRecord(row) ==
  [k \in KeyNames \cup {"storeIdentifier"} |->
     IF k = "storeIdentifier" THEN row.store_identifier
     ELSE row.data[ColumnOfKey[k]]]

\* a fetch that reports an unset numeric column as 0
FetchReplyZeroed(tbl, identifier) ==
  IF identifier = Str(<<>>)
  THEN [op |-> "fetch", ident |-> identifier, status |-> 400,
        exists |-> FALSE, update_count |-> 0, record |-> NoRecord]
  ELSE LET rows == SelectByIdentifier(tbl, identifier)
       IN IF rows = {}
          THEN [op |-> "fetch", ident |-> identifier, status |-> 404,
                exists |-> FALSE, update_count |-> 0, record |-> NoRecord]
          ELSE [op |-> "fetch", ident |-> identifier, status |-> 200,
                exists |-> TRUE, update_count |-> 0,
                record |-> [k \in DOMAIN FetchRecord(FirstRow(rows)) |->
                             IF FetchRecord(FirstRow(rows))[k] = Null
                             THEN IntV(0)
                             ELSE FetchRecord(FirstRow(rows))[k]]]

\* a fetch that answers a miss with an empty record
FetchReplyMissOk(tbl, identifier) ==
  IF identifier = Str(<<>>)
  THEN [op |-> "fetch", ident |-> identifier, status |-> 400,
        exists |-> FALSE, update_count |-> 0, record |-> NoRecord]
  ELSE LET rows == SelectByIdentifier(tbl, identifier)
       IN IF rows = {}
          THEN [op |-> "fetch", ident |-> identifier, status |-> 200,
                exists |-> FALSE, update_count |-> 0, record |-> NoRecord]
          ELSE [op |-> "fetch", ident |-> identifier, status |-> 200,
                exists |-> TRUE, update_count |-> 0,
                record |-> FetchRecord(FirstRow(rows))]

\* the answer of GET /api/survey/data/:identifier
FetchReply(tbl, identifier) ==
  IF identifier = Str(<<>>)
  THEN [op |-> "fetch", ident |-> identifier, status |-> 400,
        exists |-> FALSE, update_count |-> 0, record |-> NoRecord]
  ELSE LET rows == SelectByIdentifier(tbl, identifier)
       IN IF rows = {}
          THEN [op |-> "fetch", ident |-> identifier, status |-> 404,
                exists |-> FALSE, update_count |-> 0, record |-> NoRecord]
          ELSE [op |-> "fetch", ident |-> identifier, status |-> 200,
                exists |-> TRUE, update_count |-> 0,
                record |-> FetchRecord(FirstRow(rows))]

Fetch(identifier) ==
  /\ reply' = FetchReply(surveys, identifier)
  /\ UNCHANGED << surveys, nextId, clock, pc, body, meta, checkResult,
                  overlapped, late, response, started, stats, ADMIN_KEY >>

\* ---------------------------------------------------------------- admin
\* a middleware that lets a request without a key through
requireAdminLax(adminKey, header, queryKey) ==
  IF adminKey = Null THEN 501
  ELSE LET key == IF header = Undefined \/ header = Str(<<>>)
                  THEN queryKey ELSE header
       IN IF key # Undefined /\ key # adminKey THEN 401 ELSE 0

\* requireAdmin: the status it answers with, or 0 when it calls next()
requireAdmin(adminKey, header, queryKey) ==
  IF adminKey = Null THEN 501
  ELSE LET key == IF header = Undefined \/ header = Str(<<>>)
                  THEN queryKey ELSE header
       IN IF key # adminKey THEN 401 ELSE 0

\* the longest prefix of decimal digits
RECURSIVE DigitPrefix(_)
DigitPrefix(s) ==
  IF s # <<>> /\ Head(s) \in DigitSet
  THEN <<Head(s)>> \o DigitPrefix(Tail(s))
  ELSE <<>>

\* parseInt(v, 10) of a string
ParseInt(v) ==
  LET u == TrimLeft(v.s)
      signed == u # <<>> /\ Head(u) \in {"-", "+"}
      d == DigitPrefix(IF signed THEN Tail(u) ELSE u)
  IN IF d = <<>> THEN NaN
     ELSE IF signed /\ Head(u) = "-" THEN IntV(-DigitsToNat(d))
     ELSE IntV(DigitsToNat(d))

\* Math.min and Math.max of two values
MathMin(a, b) ==
  IF a.t # "number" \/ b.t # "number" THEN NaN
  ELSE IF a.n <= b.n THEN a ELSE b
MathMax(a, b) ==
  IF a.t # "number" \/ b.t # "number" THEN NaN
  ELSE IF a.n >= b.n THEN a ELSE b

\* v || fallback, for a query parameter
QueryOr(v, fallback) ==
  IF v = Undefined \/ v = Str(<<>>) THEN fallback ELSE v

\* the largest page of GET /api/surveys
MaxLimit == 1000

\* a limit taken from the query as it is
ListLimitUnclamped(q) == ParseInt(QueryOr(q, Str(<<"1", "0", "0">>)))

\* Math.min(parseInt(req.query.limit || '100', 10), 1000)
ListLimit(q) ==
  MathMin(ParseInt(QueryOr(q, Str(<<"1", "0", "0">>))), IntV(MaxLimit))

\* Math.max(parseInt(req.query.offset || '0', 10), 0)
ListOffset(q) == MathMax(ParseInt(QueryOr(q, Str(<<"0">>))), IntV(0))

\* the rows of a table by ascending id
RECURSIVE OrderByIdAsc(_)
OrderByIdAsc(tbl) ==
  IF tbl = {} THEN <<>>
  ELSE LET r == FirstRow(tbl) IN <<r>> \o OrderByIdAsc(tbl \ {r})

Reverse(seq) == [i \in 1..Len(seq) |-> seq[Len(seq) + 1 - i]]

\* the storage engine refuses LIMIT $1 OFFSET $2 with a parameter that is
\* not a number or is negative
PageRefused(limit, offset) ==
  \/ limit.t # "number" \/ offset.t # "number"
  \/ limit.n < 0 \/ offset.n < 0

\* SELECT * FROM surveys ORDER BY id DESC LIMIT $1 OFFSET $2
SelectPage(tbl, limit, offset) ==
  LET all == Reverse(OrderByIdAsc(tbl))
      from == (offset.n \div Scale) + 1
      upto == (offset.n \div Scale) + (limit.n \div Scale)
  IN SubSeq(all, from, IF upto < Len(all) THEN upto ELSE Len(all))

\* a response of an admin endpoint; limit and offset are the parameters of
\* the page query
AdminReply(op, status, limit, offset, rows, total) ==
  [op |-> op, status |-> status, limit |-> limit, offset |-> offset,
   rows |-> rows, total |-> total, count |-> Len(rows)]

\* requireAdmin has answered in place of the endpoint
Denied(op, status) == AdminReply(op, status, Null, Null, <<>>, 0)

\* the requests for the admin endpoints: the limit and offset of the
\* query string, the x-admin-key header and the key of the query string
SecretKey == Str(<<"K">>)
AdminRequests ==
  { [limit |-> Undefined, offset |-> Undefined, header |-> SecretKey,
     key |-> Undefined],
    [limit |-> Str(<<"2", "0", "0", "0">>), offset |-> Str(<<"-", "1">>),
     header |-> Undefined, key |-> SecretKey],
    [limit |-> Str(<<"1">>), offset |-> Str(<<"1">>), header |-> SecretKey,
     key |-> Str(<<"X">>)],
    [limit |-> Str(<<"-", "1">>), offset |-> Str(<<>>), header |-> SecretKey,
     key |-> Undefined],
    [limit |-> Str(<<"a", "l", "l">>), offset |-> Undefined,
     header |-> Str(<<>>), key |-> SecretKey],
    [limit |-> Str(<<"1">>), offset |-> Str(<<"x">>), header |-> SecretKey,
     key |-> Undefined],
    [limit |-> Undefined, offset |-> Undefined, header |-> Undefined,
     key |-> Undefined],
    [limit |-> Undefined, offset |-> Undefined, header |-> Str(<<"X">>),
     key |-> SecretKey],
    [limit |-> Str(<<"1">>), offset |-> Undefined, header |-> Undefined,
     key |-> Str(<<"k">>)] }

\* GET /api/surveys has sent its page query and awaits the count
Listing == reply.op = "list" /\ reply.status = 0

\* GET /api/surveys up to the answer of the page query
ListPage(r) ==
  /\ ~Listing
  /\ LET auth == requireAdmin(ADMIN_KEY, r.header, r.key)
         limit == ListLimit(r.limit)
         offset == ListOffset(r.offset)
     IN reply' =
          IF auth # 0 THEN Denied("list", auth)
          ELSE IF PageRefused(limit, offset)
          THEN AdminReply("list", 500, limit, offset, <<>>, 0)
          ELSE AdminReply("list", 0, limit, offset,
                          SelectPage(surveys, limit, offset), 0)
  /\ UNCHANGED << surveys, nextId, clock, pc, body, meta, checkResult,
                  overlapped, late, response, started, stats, ADMIN_KEY >>

\* SELECT COUNT(*) as total FROM surveys, and the answer
ListCount ==
  /\ Listing
  /\ reply' = [reply EXCEPT !.status = 200,
                            !.total = Cardinality(surveys)]
  /\ UNCHANGED << surveys, nextId, clock, pc, body, meta, checkResult,
                  overlapped, late, response, started, stats, ADMIN_KEY >>

\* GET /api/export: the rows by ascending id
Export(r) ==
  /\ ~Listing
  /\ LET auth == requireAdmin(ADMIN_KEY, r.header, r.key)
     IN reply' =
          IF auth # 0 THEN Denied("export", auth)
          ELSE AdminReply("export", 200, Null, Null,
                          OrderByIdAsc(surveys), Cardinality(surveys))
  /\ UNCHANGED << surveys, nextId, clock, pc, body, meta, checkResult,
                  overlapped, late, response, started, stats, ADMIN_KEY >>

\* ---------------------------------------------------------------- Next
\* concurrent submissions
Next ==
  \/ \E s \in Slots, q \in Submissions : SubmitStart(s, q.body, q.meta)
  \/ \E s \in Slots : SubmitCheck(s)
  \/ \E s \in Slots : SubmitInsert(s)
  \/ \E s \in Slots : SubmitUpdate(s)

Spec == Init /\ [][Next]_vars

\* the record of S1 after it was created and updated once
RevisedRow ==
  UpdatedRow(InsertedRow(1, 1, S1, Form(S1, FullForm), BrowserMeta),
             2, 0, Form(S1, FullForm), BrowserMeta)

\* a server started on a table that holds the record of S1, created and
\* updated once before (CREATE TABLE IF NOT EXISTS keeps the rows)
InitRevised ==
  /\ surveys = {RevisedRow}
  /\ nextId = 2
  /\ clock = 3
  /\ pc = [s \in Slots |-> "idle"]
  /\ body = [s \in Slots |-> NoBody]
  /\ meta = [s \in Slots |-> BareMeta]
  /\ checkResult = [s \in Slots |-> {}]
  /\ overlapped = [s \in Slots |-> FALSE]
  /\ late = [s \in Slots |-> FALSE]
  /\ response = NoResponse
  /\ started = 0
  /\ stats = [x \in Identifiers |->
               IF x = S1
               THEN [NoStats EXCEPT !.created = 1, !.updated = 1,
                                    !.submitted = Form(S1, FullForm)]
               ELSE NoStats]
  /\ reply = NoReply
  /\ ADMIN_KEY = AdminKey(Undefined)

\* concurrent submissions to a table that holds a revised record
SpecRevised == InitRevised /\ [][Next]_vars

\* the requests clients send while the storage engine can fail
FailSubmissions ==
  { [body |-> Form(S1, FullForm), meta |-> BrowserMeta],
    [body |-> Form(S1, OmittedForm), meta |-> BareMeta],
    [body |-> Form(Null, OmittedForm), meta |-> BareMeta] }

\* concurrent submissions to a storage engine that can fail
NextFail ==
  \/ \E s \in Slots, q \in FailSubmissions : SubmitStart(s, q.body, q.meta)
  \/ \E s \in Slots : SubmitCheck(s)
  \/ \E s \in Slots : SubmitInsert(s)
  \/ \E s \in Slots : SubmitUpdate(s)
  \/ \E s \in Slots, code \in FailureCodes : SubmitFail(s, code)

SpecFail == Init /\ [][NextFail]_vars

\* submissions one after the other, and reads between them
NextRead ==
  \/ \E q \in SequentialSubmissions : SubmitStart(1, q.body, q.meta)
  \/ SubmitCheck(1)
  \/ SubmitInsert(1)
  \/ SubmitUpdate(1)
  \/ \E id \in PathIdentifiers : Status(id)
  \/ \E id \in PathIdentifiers : Fetch(id)

SpecRead == Init /\ [][NextRead]_vars

\* submissions of single fields, one after the other
NextFields ==
  \/ \E q \in FieldSubmissions : SubmitStart(1, q.body, q.meta)
  \/ SubmitCheck(1)
  \/ SubmitInsert(1)
  \/ SubmitUpdate(1)

SpecFields == Init /\ [][NextFields]_vars

\* the values of ADMIN_KEY in the environment of the server
EnvAdminKeys == {Undefined, Str(<<>>), SecretKey}

\* a server started with or without an admin key
InitAdmin ==
  /\ InitStore
  /\ ADMIN_KEY \in {AdminKey(e) : e \in EnvAdminKeys}

\* the submissions that fill the table for the admin endpoints
AdminSubmissions ==
  { [body |-> Form(S1, FullForm), meta |-> BrowserMeta],
    [body |-> Form(S2, FullForm), meta |-> BrowserMeta] }

\* submissions one after the other, and admin requests between them
NextAdmin ==
  \/ \E q \in AdminSubmissions : SubmitStart(1, q.body, q.meta)
  \/ SubmitCheck(1)
  \/ SubmitInsert(1)
  \/ SubmitUpdate(1)
  \/ \E r \in AdminRequests : ListPage(r)
  \/ ListCount
  \/ \E r \in AdminRequests : Export(r)

SpecAdmin == InitAdmin /\ [][NextAdmin]_vars

\* ---------------------------------------------------------------- claims
\* a storeIdentifier that is missing, null, empty or only white space
Blank(v) ==
  \/ v = Undefined
  \/ v = Null
  \/ v.t = "string" /\ \A i \in 1..Len(v.s) : v.s[i] \in WhiteSpace

RowsOf(tbl, ident) == {r \in tbl : r.store_identifier = ident}

\* slot s takes a step of its handler
Steps(s) == pc'[s] # pc[s]

\* slot s sends a response with the status
Answers(s, status) == response'.slot = s /\ response'.status = status

\* C1: in every reachable state, under any interleaving of concurrent
\* submissions, the surveys table holds at most one record per
\* storeIdentifier.
C1_OneRecordPerIdentifier ==
  \A r1 \in surveys, r2 \in surveys :
    r1.store_identifier = r2.store_identifier => r1 = r2

\* two first submissions for one identifier were in flight together, the
\* second insert was refused, and the table holds the one record
C1_Witness ==
  /\ response.status = 409
  /\ \E r \in surveys :
       /\ stats[r.store_identifier].raced
       /\ RowsOf(surveys, r.store_identifier) = {r}

\* C2: a valid submit whose identifier has no record, and no concurrent
\* submit for that identifier, is accepted, takes the insert branch, adds
\* exactly one record for the identifier with update_count = 0 and answers
\* with that record's id and timestamp.
C2_FirstSubmitCreates ==
  [][ /\ \A s \in Slots :
           (pc[s] = "idle" /\ started' # started) =>
             \A q \in Submissions :
               ( /\ SubmitStart(s, q.body, q.meta)
                 /\ ~Blank(Get(q.body, "storeIdentifier")) )
               => pc'[s] = "check" /\ body'[s] = q.body
      /\ \A s \in Slots :
           ( /\ pc[s] \in {"check", "insert"}
             /\ Steps(s)
             /\ ~overlapped[s]
             /\ RowsOf(surveys, StoreIdentifier(s)) = {} )
           => /\ pc[s] = "check" => pc'[s] = "insert" /\ surveys' = surveys
              /\ pc[s] = "insert" =>
                   /\ Answers(s, 200)
                   /\ \E row \in surveys' \ surveys :
                        /\ surveys' = surveys \cup {row}
                        /\ row.store_identifier = StoreIdentifier(s)
                        /\ row.update_count = 0
                        /\ response'.id = row.id
                        /\ response'.timestamp = row.timestamp
    ]_vars

\* a first submission made on its own has been answered with the id of
\* the record it created
C2_Witness ==
  /\ started = 1
  /\ response.status = 200
  /\ \E r \in surveys :
       /\ r.id = response.id
       /\ r.timestamp = response.timestamp
       /\ r.update_count = 0
       /\ ~stats[r.store_identifier].raced

\* C3: a submit for an existing record that no other submit for the
\* identifier overlaps succeeds and raises update_count by exactly 1 while
\* the count is below 3, and is rejected with 403, the table unchanged,
\* once the count is 3.
C3_SequentialUpdates ==
  [][ \A s \in Slots :
        ( /\ pc[s] \in {"check", "update"}
          /\ Steps(s)
          /\ ~overlapped[s] )
        => \A r \in RowsOf(surveys, StoreIdentifier(s)) :
             /\ (pc[s] = "check" /\ r.update_count < 3)
                  => pc'[s] = "update" /\ surveys' = surveys
             /\ (pc[s] = "check" /\ r.update_count >= 3)
                  => /\ Answers(s, 403)
                     /\ surveys' = surveys
                     /\ r.update_count = 3
             /\ pc[s] = "update"
                  => /\ Answers(s, 200)
                     /\ response'.id = r.id
                     /\ \E q \in surveys' :
                          /\ q.id = r.id
                          /\ q.update_count = r.update_count + 1
                          /\ q.update_count <= 3
    ]_vars

\* five submissions for one identifier, never two of them in flight
\* together: the record is at three updates and the fifth was rejected
C3_Witness ==
  /\ started = 5
  /\ response.status = 403
  /\ \E r \in surveys :
       /\ r.update_count = 3
       /\ stats[r.store_identifier].updated = 3
       /\ ~stats[r.store_identifier].raced

\* C4: in every reachable state, also under concurrent submits to one
\* identifier, every record's update_count is between 0 and 3, and a
\* submit that finds the count at the limit is rejected with 403 and
\* writes nothing.
C4_CountWithinLimit ==
  /\ [](\A r \in surveys : r.update_count \in 0..3)
  /\ [][ \A s \in Slots :
           ( /\ pc[s] = "check"
             /\ Steps(s)
             /\ \E r \in RowsOf(surveys, StoreIdentifier(s)) :
                  r.update_count + 1 > 3 )
           => Answers(s, 403) /\ surveys' = surveys
       ]_vars

\* a record at the limit and a submit rejected for it, after submits for
\* the identifier that were in flight together
C4_Witness ==
  /\ response.status = 403
  /\ \E r \in surveys :
       r.update_count = 3 /\ stats[r.store_identifier].raced

\* C5: of the submits that passed the existence check for an identifier
\* without a record, the one whose insert comes first creates the record
\* and is answered 200; one whose insert finds the record there is answered
\* 409, writes nothing, and the identifier has exactly one row, created by
\* exactly one submit.
C5_InsertRace ==
  [][ \A s \in Slots :
        (pc[s] = "insert" /\ Steps(s))
        => LET x == StoreIdentifier(s)
           IN /\ Cardinality(RowsOf(surveys', x)) = 1
              /\ stats'[x].created = 1
              /\ RowsOf(surveys, x) = {} =>
                   /\ Answers(s, 200)
                   /\ \E r \in RowsOf(surveys', x) : r.id = response'.id
              /\ RowsOf(surveys, x) # {} =>
                   /\ Answers(s, 409)
                   /\ surveys' = surveys
    ]_vars

\* both of two racing first submissions are answered, the second with the
\* conflict: one record, created once
C5_Witness ==
  /\ started = 2
  /\ \A s \in Slots : pc[s] = "idle"
  /\ response.status = 409
  /\ Cardinality(surveys) = 1
  /\ \E r \in surveys :
       stats[r.store_identifier].created = 1 /\ r.update_count = 0

\* C6: across any execution, also with concurrent submits to one existing
\* identifier, at most 3 submits for an identifier take the update branch
\* and are answered ok.
C6_AtMostThreeUpdates ==
  \A x \in Identifiers : stats[x].updated <= 3

\* C7: a submit rejected with 403 changes nothing: every record of the
\* table, with its metric columns, update_count, timestamp, user_agent and
\* ip, is as it was before the request was answered.
C7_RejectedLeavesTable ==
  [][ \A s \in Slots :
        (InFlight(s) /\ Steps(s) /\ Answers(s, 403))
        => surveys' = surveys /\ nextId' = nextId
    ]_vars

\* a submit for S1 was rejected at the limit and the record of S1 stands
\* at three updates
C7_Witness ==
  /\ response.status = 403
  /\ \E r \in surveys :
       /\ r.update_count = 3
       /\ r.store_identifier = S1
       /\ r.data = MetricData(Form(S1, OmittedForm))

ReadStep ==
  /\ pc' = pc
  /\ started' = started
  /\ response' = response

\* C9: status answers {exists: false, update_count: 0} for an identifier
\* without a record and {exists: true, update_count: c}, c the stored
\* count, for one with a record; it changes no stored state.
C9_StatusReadsCount ==
  [][ ReadStep =>
        /\ surveys' = surveys
        /\ nextId' = nextId
        /\ (reply'.op = "status" /\ reply'.ident # Str(<<>>)) =>
             /\ reply'.status = 200
             /\ RowsOf(surveys, reply'.ident) = {} =>
                  ~reply'.exists /\ reply'.update_count = 0
             /\ \A r \in RowsOf(surveys, reply'.ident) :
                  reply'.exists /\ reply'.update_count = r.update_count
    ]_vars

\* status has reported the count of an updated record
C9_Witness ==
  /\ reply.op = "status"
  /\ reply.exists
  /\ reply.update_count = 2
  /\ \E r \in surveys : r.store_identifier = reply.ident /\ r.update_count = 2

\* C10: a successful update is a full replace: afterwards every metric
\* column of the record holds the converted value of the new submission,
\* and a column whose key the submission omits is NULL.
C10_UpdateReplacesAll ==
  [][ \A s \in Slots :
        (pc[s] = "update" /\ Steps(s) /\ Answers(s, 200))
        => \A r \in RowsOf(surveys', StoreIdentifier(s)) :
             \A i \in 1..Len(Columns) :
               LET v == Get(body[s], Columns[i].key)
               IN /\ r.data[Columns[i].col] = Convert(Columns[i].conv, v)
                  /\ v \in {Undefined, Null, Str(<<>>)} =>
                       r.data[Columns[i].col] = Null
    ]_vars

\* an update has set populated columns of a record to NULL
C10_Witness ==
  \E r \in surveys :
    /\ stats[r.store_identifier].nulled
    /\ r.update_count = 1
    /\ stats[r.store_identifier].updated = 1
    /\ r.data["monthly_revenue"] = Null

\* the value a client that leaves a key out has submitted for it
Submitted(b, key) == IF Get(b, key) = Undefined THEN Null ELSE Get(b, key)

\* a value that is already of the column's type: an integer for an integer
\* column, a number for a float column, text without blank ends for a text
\* column
Typed(conv, v) ==
  CASE conv = "int" -> v.t = "number" /\ v.n % Scale = 0
    [] conv = "float" -> v.t = "number"
    [] OTHER -> v.t = "string" /\ v.s # <<>> /\ Trim(v.s) = v.s

\* fetch answers 200 for an identifier whose record the last successful
\* submit wrote
FetchHit ==
  /\ ReadStep
  /\ reply'.op = "fetch"
  /\ reply'.status = 200

Normalised ==
  [b \in Bodies |->
     [k \in KeyNames |->
        Convert(ColumnOf[ColumnOfKey[k]].conv, Submitted(b, k))]]

\* normalising a body keeps each value that is of its field's type, turns
\* an absent, null or empty value into null, and keeps 0 as 0
KeepsTyped ==
  [b \in Bodies |->
     \A i \in 1..Len(Columns) :
       LET v == Submitted(b, Columns[i].key)
           got == Normalised[b][Columns[i].key]
       IN /\ Typed(Columns[i].conv, v) => got = v
          /\ v \in {Null, Str(<<>>)} => got = Null
          /\ v = IntV(0) => got = IntV(0)]

C12_AbsentIsNullZeroIsZero ==
  [][ \A s \in Slots :
        (pc[s] \in {"insert", "update"} /\ Steps(s) /\ Answers(s, 200))
        => \A r \in RowsOf(surveys', StoreIdentifier(s)) :
             \A i \in 1..Len(Columns) :
               LET v == Get(body[s], Columns[i].key)
                   stored == r.data[Columns[i].col]
               IN /\ v \in {Undefined, Null, Str(<<>>)} =>
                       /\ stored = Null
                       /\ stored # IntV(0)
                       /\ stored # Str(<<>>)
                  /\ v = IntV(0) =>
                       /\ stored # Null
                       /\ stored = IF Columns[i].conv = "text"
                                   THEN Str(<<"0">>) ELSE IntV(0)
    ]_vars

\* an update that reports 0 seats and nothing else has stored 0 seats and
\* no rating
C12_Witness ==
  \E r \in surveys :
    /\ r.update_count = 1
    /\ stats[r.store_identifier].submitted =
         Form(S1, [k \in {"seats"} |-> IntV(0)])
    /\ r.data["seats"] = IntV(0)
    /\ r.data["average_rating"] = Null

\* the SurveyRecord of a row with every attribute: the system fields and
\* the request metadata next to the identifier and the metrics
FullRecord(r) ==
  [k \in KeyNames \cup {"id", "storeIdentifier", "updateCount", "timestamp",
                        "userAgent", "ip"} |->
     CASE k = "id" -> IntV(r.id)
       [] k = "storeIdentifier" -> r.store_identifier
       [] k = "updateCount" -> IntV(r.update_count)
       [] k = "timestamp" -> IntV(r.timestamp)
       [] k = "userAgent" -> r.user_agent
       [] k = "ip" -> r.ip
       [] OTHER -> r.data[ColumnOfKey[k]]]

\* a fetch request for a path identifier is answered
FetchStep ==
  /\ ReadStep
  /\ reply'.op = "fetch"
  /\ reply'.ident # Str(<<>>)

\* C13 as stated: fetch answers 404 for an identifier without a record and
\* otherwise returns the full stored record, changing no stored state.
C13_FetchFullRecord ==
  [][ FetchStep =>
        /\ surveys' = surveys
        /\ nextId' = nextId
        /\ RowsOf(surveys, reply'.ident) = {} => reply'.status = 404
        /\ \A r \in RowsOf(surveys, reply'.ident) :
             reply'.status = 200 /\ reply'.record = FullRecord(r)
    ]_vars

\* C13: fetch answers 404 for an identifier without a record and otherwise
\* returns the record's storeIdentifier and its metric fields, and nothing
\* else of the record; it changes no stored state.
C13_FetchMetrics ==
  [][ FetchStep =>
        /\ surveys' = surveys
        /\ nextId' = nextId
        /\ RowsOf(surveys, reply'.ident) = {} =>
             reply'.status = 404 /\ reply'.record = NoRecord
        /\ \A r \in RowsOf(surveys, reply'.ident) :
             /\ reply'.status = 200
             /\ DOMAIN reply'.record = KeyNames \cup {"storeIdentifier"}
             /\ reply'.record["storeIdentifier"] = r.store_identifier
             /\ \A i \in 1..Len(Columns) :
                  reply'.record[Columns[i].key] = r.data[Columns[i].col]
    ]_vars

\* fetch has returned the metrics of a record that was updated, while
\* another identifier has no record
C13_Witness ==
  /\ reply.op = "fetch"
  /\ reply.status = 200
  /\ RowsOf(surveys, S2) = {}
  /\ \E r \in RowsOf(surveys, reply.ident) :
       /\ r.update_count = 1
       /\ reply.record["monthlyRevenue"] = IntV(50000)
       /\ r.data["monthly_revenue"] = IntV(50000)

\* the request passes requireAdmin
Admitted(r) ==
  /\ ADMIN_KEY # Null
  /\ \/ r.header = ADMIN_KEY
     \/ r.header \in {Undefined, Str(<<>>)} /\ r.key = ADMIN_KEY

\* C14: list clamps its paging arguments: the page query of every list
\* request is given a limit of at most 1000 and an offset of at least 0
\* (a parameter that does not parse as a number is refused by the storage
\* engine and the request answered 500), and a request with limit 2000 and
\* offset -1 is executed and answered with limit 1000 and offset 0.
C14_ListClamps ==
  [][ /\ \A r \in AdminRequests :
           (ListPage(r) /\ Admitted(r)) =>
             /\ reply'.limit.t = "number" => reply'.limit.n <= 1000 * Scale
             /\ reply'.offset.t = "number" => reply'.offset.n >= 0
             /\ ( \/ reply'.limit.t # "number"
                  \/ reply'.offset.t # "number" ) => reply'.status = 500
             /\ ( /\ r.limit = Str(<<"2", "0", "0", "0">>)
                  /\ r.offset = Str(<<"-", "1">>) ) =>
                  /\ reply'.status = 0
                  /\ reply'.limit = IntV(1000)
                  /\ reply'.offset = IntV(0)
      /\ ListCount =>
           /\ reply'.status = 200
           /\ reply'.limit = reply.limit /\ reply'.offset = reply.offset
           /\ reply'.limit.n \in 0..(1000 * Scale)
           /\ reply'.offset.n >= 0
           /\ reply'.count <= 1000
    ]_vars

\* a list request was answered with limit 1000 and offset 0 and both
\* records of the table
C14_Witness ==
  /\ reply.op = "list"
  /\ reply.status = 200
  /\ reply.limit = IntV(1000)
  /\ reply.offset = IntV(0)
  /\ reply.count = 2
  /\ reply.total = 2

\* C15: GET /api/surveys and GET /api/export return rows only when
\* ADMIN_KEY is configured and the x-admin-key header or the key query
\* parameter equals it; without ADMIN_KEY every request is answered 501,
\* with a missing or different key 401, and in both cases no query is sent
\* and no row returned.
C15_AdminOnly ==
  [][ /\ \A r \in AdminRequests :
           (ListPage(r) \/ Export(r)) =>
             /\ ADMIN_KEY = Null => reply'.status = 501
             /\ (ADMIN_KEY # Null /\ ~Admitted(r)) => reply'.status = 401
             /\ reply'.status \in {501, 401} =>
                  /\ reply'.rows = <<>>
                  /\ reply'.total = 0
                  /\ ~Listing'
                  /\ surveys' = surveys
             /\ reply'.status \notin {501, 401} =>
                  /\ ADMIN_KEY # Null
                  /\ r.header = ADMIN_KEY \/ r.key = ADMIN_KEY
      /\ (reply'.op \in {"list", "export"} /\ reply'.rows # <<>>) =>
           ADMIN_KEY # Null
    ]_vars

\* with records in the table, an export request with a wrong key in the
\* header was answered 401 by a server that has an admin key
C15_Witness ==
  /\ reply.op = "export"
  /\ reply.status = 401
  /\ reply.rows = <<>>
  /\ ADMIN_KEY = SecretKey
  /\ Cardinality(surveys) = 2

\* C16: in saveSurvey a uniqueness violation of the insert is answered 409;
\* every other failure of the existence check, the insert or the update
\* is answered 500 "Database error", never ok, and ends the handler: the
\* failed statement is not sent again and nothing is written.
C16_ErrorTranslation ==
  [][ \A s \in Slots :
        /\ ( /\ SubmitInsert(s)
             /\ RowsOf(surveys, StoreIdentifier(s)) # {} ) =>
             /\ Answers(s, 409)
             /\ response'.error = "Store identifier already exists"
        /\ \A code \in FailureCodes :
             SubmitFail(s, code) =>
               /\ Answers(s, 500)
               /\ response'.error = "Database error"
               /\ response'.id = 0
               /\ pc'[s] = "idle"
               /\ checkResult'[s] = {}
               /\ surveys' = surveys
    ]_vars

\* the third submit for a record failed in the storage engine and was
\* answered 500; the record stands at its first update
C16_Witness ==
  /\ started = 3
  /\ \A s \in Slots : pc[s] = "idle"
  /\ response.status = 500
  /\ response.error = "Database error"
  /\ \E r \in surveys :
       r.update_count = 1 /\ stats[r.store_identifier].updated = 1

\* C17: a submit sends at most one write statement, as its last step: a
\* step that changes the table is the insert or update of one request,
\* writes one whole record and is answered ok; a request that is answered
\* with an error (400, 403, 409, 500) has written nothing.
C17_SingleWrite ==
  [][ /\ surveys' # surveys =>
           \E s \in Slots :
             /\ pc[s] \in {"insert", "update"}
             /\ pc'[s] = "idle"
             /\ Answers(s, 200)
             /\ \A u \in Slots \ {s} : pc'[u] = pc[u]
             /\ Cardinality(surveys' \ surveys) = 1
             /\ Cardinality(surveys \ surveys') <= 1
             /\ \A r \in surveys' \ surveys :
                  /\ r.store_identifier = StoreIdentifier(s)
                  /\ r.data = MetricData(body[s])
                  /\ r.user_agent = UserAgentOf(meta[s])
                  /\ r.ip = IpOf(meta[s])
      /\ \A s \in Slots :
           (Steps(s) /\ pc'[s] # "idle") => surveys' = surveys
      /\ response'.status \in {400, 403, 409, 500} => surveys' = surveys
    ]_vars

\* of two submits one created the record and the other failed in the
\* storage engine: the record is as it was created
C17_Witness ==
  /\ started = 2
  /\ \A s \in Slots : pc[s] = "idle"
  /\ response.status = 500
  /\ Cardinality(surveys) = 1
  /\ \E r \in surveys :
       /\ r.update_count = 0
       /\ r.data = MetricData(stats[r.store_identifier].submitted)

\* C18: a record's update_count starts at 0 and never decreases: every
\* write, also of interleaved submits for one identifier, leaves the
\* count at or above the value stored before it.
C18_CountNeverDecreases ==
  [][ /\ \A q \in surveys' :
           (\A r \in surveys : r.id # q.id) => q.update_count = 0
      /\ \A r \in surveys, q \in surveys' :
           r.id = q.id => q.update_count >= r.update_count
    ]_vars

\* C19: LimitReached is terminal for an identifier: a submit that arrives
\* after a submit for its identifier was answered 403 is answered 403 as
\* well, also while other submits for the identifier are in flight.
C19_LimitIsTerminal ==
  [][ \A s \in Slots :
        (late[s] /\ pc'[s] = "idle" /\ Steps(s)) => Answers(s, 403)
    ]_vars

\* C20: a record's timestamp is the time of its creating insert, then of
\* each successful update, which moves it forward; a submit that is
\* rejected or fails leaves it as it is; it never moves back, so it is
\* always the time of the last successful write to the record.
C20_TimestampOfLastWrite ==
  [][ /\ \A s \in Slots :
           (InFlight(s) /\ Steps(s) /\ pc'[s] = "idle") =>
             LET x == StoreIdentifier(s)
             IN IF Answers(s, 200)
                THEN \A q \in RowsOf(surveys', x) :
                       /\ q.timestamp = clock
                       /\ response'.timestamp = q.timestamp
                       /\ \A r \in RowsOf(surveys, x) :
                            q.timestamp > r.timestamp
                ELSE \A r \in RowsOf(surveys, x) : r \in surveys'
      /\ \A r \in surveys, q \in surveys' :
           r.id = q.id =>
             /\ q.timestamp >= r.timestamp
             /\ q.timestamp # r.timestamp => q.timestamp = clock
      /\ \A q \in surveys' :
           (\A r \in surveys : r.id # q.id) => q.timestamp = clock
      /\ clock' >= clock
    ]_vars

\* a record created at time 1 and updated at time 2 keeps the timestamp 2
\* after a third submit has failed in the storage engine
C20_Witness ==
  /\ started = 3
  /\ \A s \in Slots : pc[s] = "idle"
  /\ response.status = 500
  /\ clock = 3
  /\ \E r \in surveys : r.update_count = 1 /\ r.timestamp = 2

\* C21: a record's id and store_identifier never change after creation:
\* a successful insert answers with the id of the row it adds, every later
\* state holds the identifier under that same id, and every successful
\* update answers with it.
C21_IdentityIsStable ==
  [][ /\ \A r \in surveys, q \in surveys' :
           /\ q.id = r.id => q.store_identifier = r.store_identifier
           /\ q.store_identifier = r.store_identifier => q.id = r.id
      /\ \A s \in Slots :
           (InFlight(s) /\ pc'[s] = "idle" /\ Answers(s, 200)) =>
             LET x == StoreIdentifier(s)
             IN /\ \E q \in surveys' :
                     q.store_identifier = x /\ q.id = response'.id
                /\ pc[s] = "insert" =>
                     \A r \in surveys : r.id # response'.id
                /\ pc[s] = "update" =>
                     \E r \in surveys :
                       r.store_identifier = x /\ r.id = response'.id
    ]_vars

\* the record created second, under id 2, has been updated twice and the
\* last update was answered with id 2 while the record with id 1 is kept
C21_Witness ==
  /\ response.status = 200
  /\ response.id = 2
  /\ \E r \in surveys : r.id = 2 /\ r.update_count = 2
  /\ \E r \in surveys : r.id = 1

\* C22: no step deletes a record: every identifier stored before a step
\* is stored after it, an identifier that a submit once created stays
\* stored, and status for such an identifier answers exists: true.
C22_RecordsAreKept ==
  [][ /\ \A r \in surveys : RowsOf(surveys', r.store_identifier) # {}
      /\ Cardinality(surveys') >= Cardinality(surveys)
      /\ \A x \in Identifiers :
           stats[x].created > 0 => RowsOf(surveys', x) # {}
      /\ ( /\ ReadStep
           /\ reply'.op = "status"
           /\ reply'.ident \in Identifiers
           /\ stats[reply'.ident].created > 0 )
           => reply'.status = 200 /\ reply'.exists
    ]_vars

\* a record has taken its three updates, a further submit was rejected,
\* and status still reports the record
C22_Witness ==
  /\ response.status = 403
  /\ reply.op = "status"
  /\ reply.ident \in Identifiers
  /\ stats[reply.ident].limited
  /\ reply.exists
  /\ reply.update_count = 3

\* C23: a step of a submit for identifier x leaves every record of another
\* identifier as it is and adds none, in every interleaving, and what the
\* step does (insert, update, 200, 403, 409) is decided by the records
\* of x alone.
C23_OtherIdentifiersUntouched ==
  [][ \A s \in Slots :
        (InFlight(s) /\ Steps(s)) =>
          LET x == StoreIdentifier(s)
              own == RowsOf(surveys, x)
          IN /\ \A r \in surveys : r.store_identifier # x => r \in surveys'
             /\ \A q \in surveys' : q.store_identifier # x => q \in surveys
             /\ pc[s] = "check" =>
                  IF own = {} THEN pc'[s] = "insert"
                  ELSE IF \E r \in own : r.update_count >= MaxUpdates
                  THEN Answers(s, 403)
                  ELSE pc'[s] = "update"
             /\ pc[s] = "insert" =>
                  IF own = {} THEN Answers(s, 200) ELSE Answers(s, 409)
             /\ pc[s] = "update" => Answers(s, 200)
    ]_vars

\* two first submits for S1 raced and the loser was answered 409; the
\* record of S2, created before, is as it was created and a submit for S2
\* is on its update branch
C23_Witness ==
  /\ response.status = 409
  /\ stats[S1].raced
  /\ RowsOf(surveys, S1) # {}
  /\ \E r \in RowsOf(surveys, S2) :
       /\ r.update_count = 0
       /\ r.id = 1
       /\ r.timestamp = 1
  /\ \E s \in Slots : pc[s] = "update" /\ StoreIdentifier(s) = S2

\* the read request names the identifier x exactly as the last successful
\* submit for x had it in its body
ReadsAsSubmitted(x) ==
  /\ ReadStep
  /\ reply'.op \in {"status", "fetch"}
  /\ stats[x].submitted # NoBody
  /\ reply'.ident = Get(stats[x].submitted, "storeIdentifier")

\* C24: after a successful submit with the identifier text x, status for the
\* same text answers exists: true and fetch for the same text answers with
\* the record, also when the text has leading or trailing white space.
C24_SameIdentityEverywhere ==
  [][ \A x \in Identifiers :
        ReadsAsSubmitted(x) =>
          /\ reply'.status = 200
          /\ reply'.exists
          /\ reply'.op = "fetch" => reply'.record.storeIdentifier = x
    ]_vars

\* the query parameter is the decimal text of an integer
IntegerText(v) ==
  /\ v.t = "string"
  /\ LET d == IF v.s # <<>> /\ Head(v.s) = "-" THEN Tail(v.s) ELSE v.s
     IN d # <<>> /\ AllDigits(d)

\* C25: for every integer limit of a list request, negative ones included,
\* the page query is given a limit in 0..1000, the request is not answered
\* with a storage error, and it returns at most 1000 rows with count the
\* number of rows returned.
C25_LimitWithinPage ==
  [][ \A r \in AdminRequests :
        ( /\ ListPage(r)
          /\ Admitted(r)
          /\ IntegerText(r.limit)
          /\ r.offset \in {Undefined, Str(<<>>)} \/ IntegerText(r.offset) )
        => /\ reply'.limit.t = "number"
           /\ reply'.limit.n \in 0..(MaxLimit * Scale)
           /\ reply'.status # 500
           /\ reply'.count <= MaxLimit
           /\ reply'.count = Len(reply'.rows)
    ]_vars

====
